---- MODULE Spec2Model ----
(***************************************************************************)
(* A model of wiki-scraper.py: BetaScraper.build_api (the table extractor),*)
(* BetaScraper.get_signing_status, BetaScraper.write_api and main.         *)
(*                                                                         *)
(* Strings are sequences of tokens.  A token is one character, or one of   *)
(* the literals the code searches for, kept whole: "SEP" is the separator  *)
(* '   | ', "EQ" is ' = ', ".ipsw" is the suffix, a family name such as    *)
(* "iPhone" is the family name.  Python dict objects live in `heap` and    *)
(* are referred to by their index, so that two lists holding the same dict *)
(* hold the same reference.                                                *)
(***************************************************************************)
EXTENDS Integers, Sequences, FiniteSets, TLC

VARIABLES
    api,    \* self.api: device identifier -> sequence of references into heap
    heap,   \* the dicts made by `firm = dict()`: reference -> firmware record
    ext,    \* the extraction tasks (build_api calls): task -> local state
    sig,    \* the signing-check tasks: device -> local state
    main,   \* the position of main()
    files   \* what write_api wrote: device -> list of records

vars == <<api, heap, ext, sig, main, files>>

----------------------------------------------------------------------------
\* Bounds of the model.

\* results of the search one build_api call goes through
MaxResults == 1
\* firmware dicts made (rows that reach the device loop) by one build_api call
MaxFirms == 2
\* firmware dicts made in all when the four calls of main run concurrently
MaxMainFirms == 2

----------------------------------------------------------------------------
\* Strings.

Digits == {"0", "1", "2", "3", "4", "5", "6", "7", "8", "9"}

DigitVal(c) ==
    CASE c = "0" -> 0 [] c = "1" -> 1 [] c = "2" -> 2 [] c = "3" -> 3
      [] c = "4" -> 4 [] c = "5" -> 5 [] c = "6" -> 6 [] c = "7" -> 7
      [] c = "8" -> 8 [] c = "9" -> 9

\* s[i:j] of Python, on 1-based positions i..j
Slice(s, i, j) == IF j < i THEN <<>> ELSE SubSeq(s, i, j)

\* `p in s` for strings: p occurs in s as a contiguous run
Contains(s, p) ==
    \E i \in 1..(Len(s) - Len(p) + 1) : SubSeq(s, i, i + Len(p) - 1) = p

\* s.endswith(p)
EndsWith(s, p) ==
    /\ Len(s) >= Len(p)
    /\ SubSeq(s, Len(s) - Len(p) + 1, Len(s)) = p

\* s.split(sep) for a one-token separator: always at least one part
RECURSIVE SplitFrom(_, _, _, _)
SplitFrom(s, sep, i, cur) ==
    IF i > Len(s) THEN <<cur>>
    ELSE IF s[i] \in sep THEN <<cur>> \o SplitFrom(s, sep, i + 1, <<>>)
    ELSE SplitFrom(s, sep, i + 1, Append(cur, s[i]))

Split(s, sep) == SplitFrom(s, {sep}, 1, <<>>)

\* s.replace(c, '') for every token c of cs
RECURSIVE Remove(_, _)
Remove(s, cs) ==
    IF s = <<>> THEN <<>>
    ELSE IF Head(s) \in cs THEN Remove(Tail(s), cs)
    ELSE <<Head(s)>> \o Remove(Tail(s), cs)

\* s.replace(old, new) where old is one token
RECURSIVE Replace(_, _, _)
Replace(s, old, new) ==
    IF s = <<>> THEN <<>>
    ELSE IF Head(s) = old THEN new \o Replace(Tail(s), old, new)
    ELSE <<Head(s)>> \o Replace(Tail(s), old, new)

\* str.isnumeric(): non-empty and every character numeric.  The superscript
\* two is numeric for isnumeric() and is not a digit for int().
IsNumeric(w) == Len(w) > 0 /\ \A i \in 1..Len(w) : w[i] \in Digits \cup {"^2"}

IsDecimal(w) == Len(w) > 0 /\ \A i \in 1..Len(w) : w[i] \in Digits

\* int(w) of a decimal string
RECURSIVE IntOf(_)
IntOf(w) ==
    IF w = <<>> THEN 0
    ELSE 10 * IntOf(SubSeq(w, 1, Len(w) - 1)) + DigitVal(w[Len(w)])

\* the order of Python's str comparison, by code point
Rank(c) ==
    CASE c \in Digits -> DigitVal(c)
      [] c = "a" -> 20 [] c = "b" -> 21 [] c = "x" -> 22 [] c = "y" -> 23
      [] OTHER -> 30

RECURSIVE StrLess(_, _)
StrLess(s, t) ==
    IF t = <<>> THEN FALSE
    ELSE IF s = <<>> THEN TRUE
    ELSE IF Rank(Head(s)) # Rank(Head(t)) THEN Rank(Head(s)) < Rank(Head(t))
    ELSE StrLess(Tail(s), Tail(t))

----------------------------------------------------------------------------
\* The wiki: page titles and table rows, as the parser hands them to build_api.

\* A table cell as wikitextparser presents it: the cell's text, the wikilinks
\* and the external links parsed out of it.  `none` marks a None of
\* table.data().  A wikilink is [raw |-> its markup, one token of the cell's
\* text; text |-> its display text].
Cell(text, wikilinks, external_links) ==
    [none |-> FALSE, text |-> text, wikilinks |-> wikilinks,
     external_links |-> external_links]

NoneCell == [none |-> TRUE, text |-> <<>>, wikilinks |-> <<>>, external_links |-> <<>>]

NoRow == [template |-> <<>>, cells |-> <<>>]

NoTitle == <<>>

\* device_regex = (iPhone|AppleTV|iPad|iPod)[0-9]+,[0-9]+
RegexFamilies == {"iPhone", "AppleTV", "iPad", "iPod"}

\* the number of digits of s from position i on
RECURSIVE DigitRun(_, _)
DigitRun(s, i) ==
    IF i <= Len(s) /\ s[i] \in Digits THEN 1 + DigitRun(s, i + 1) ELSE 0

\* device_regex.match(s): the matched prefix (regex.group()), <<>> for None
device_regex(s) ==
    IF Len(s) = 0 \/ s[1] \notin RegexFamilies THEN <<>>
    ELSE LET a == DigitRun(s, 2)
         IN  IF a = 0 \/ 2 + a > Len(s) \/ s[2 + a] # "," THEN <<>>
             ELSE LET b == DigitRun(s, 3 + a)
                  IN  IF b = 0 THEN <<>> ELSE SubSeq(s, 1, 2 + a + b)

\* firm_data = [x for x in table.data()[firm] if x is not None]
Compact(cells) == SelectSeq(cells, LAMBDA c : ~c.none)

\* any(i in x for i in ('Codename', 'Keys'))
IsKeysLabel(x) == Contains(x, <<"Codename">>) \/ Contains(x, <<"Keys">>)

\* next(template.index(x) for x in template if ...), 1-based; 0 when next()
\* finds nothing and raises StopIteration
KeysColumn(template) ==
    IF \E i \in 1..Len(template) : IsKeysLabel(template[i])
    THEN LET x == template[CHOOSE i \in 1..Len(template) :
                       /\ IsKeysLabel(template[i])
                       /\ \A j \in 1..(i - 1) : ~IsKeysLabel(template[j])]
         IN  CHOOSE i \in 1..Len(template) :
                 template[i] = x /\ \A j \in 1..(i - 1) : template[j] # x
    ELSE 0

\* the loop of lines 41-44 over the wikilinks of the device cell
RECURSIVE MatchedDevices(_)
MatchedDevices(links) ==
    IF links = <<>> THEN <<>>
    ELSE LET m == device_regex(Head(links).text)
         IN  (IF m = <<>> THEN <<>> ELSE <<m>>) \o MatchedDevices(Tail(links))

\* firm['version'], from the first compacted cell
VersionOf(cell) ==
    IF cell.wikilinks # <<>>
    THEN Replace(cell.text, cell.wikilinks[1].raw, cell.wikilinks[1].text)
    ELSE cell.text

\* buildids[b].split(' = ')[-1][:-1]
StripBuildId(part) ==
    LET last == Split(part, "EQ")[Len(Split(part, "EQ"))]
    IN  Slice(last, 1, Len(last) - 1)

\* buildids, from the second compacted cell
BuildIds(cell) ==
    LET parts == Split(cell.text, "SEP")
    IN  IF Len(parts) > 1
        THEN LET inner == Slice(parts, 2, Len(parts) - 1)
             IN  [b \in 1..Len(inner) |-> StripBuildId(inner[b])]
        ELSE parts

\* next(wtp.parse(item).external_links for item in firm_data if ...); <<>> when
\* next() finds nothing and the except clause skips the row
Ipsws(firm_data) ==
    IF \E i \in 1..Len(firm_data) : firm_data[i].external_links # <<>>
    THEN firm_data[CHOOSE i \in 1..Len(firm_data) :
                       /\ firm_data[i].external_links # <<>>
                       /\ \A j \in 1..(i - 1) : firm_data[j].external_links = <<>>
                  ].external_links
    ELSE <<>>

\* any(ipsw.url.endswith('.ipsw') for ipsw in ipsws)
AnyIpsw(ipsws) == \E i \in 1..Len(ipsws) : EndsWith(ipsws[i], <<".ipsw">>)

\* [x.replace(',', '').replace('\n', '') for x in firm_data[-1].split(' ')]
\* The separators '   | ' and ' = ' hold spaces: split(' ') cuts there too,
\* and the pieces it leaves of them ('', '|', '=') are not numeric.
SizeWords(cell) ==
    LET ws == SplitFrom(cell.text, {" ", "SEP", "EQ"}, 1, <<>>)
    IN  [i \in 1..Len(ws) |-> Remove(ws[i], {",", "\n"})]

\* int(word) raises ValueError on a numeric word that is no decimal
SizeRaises(cell) ==
    \E i \in 1..Len(SizeWords(cell)) :
        IsNumeric(SizeWords(cell)[i]) /\ ~IsDecimal(SizeWords(cell)[i])

\* ipsw_sizes: the words that are numeric and greater than 10
RECURSIVE SizesOf(_)
SizesOf(words) ==
    IF words = <<>> THEN <<>>
    ELSE (IF IsDecimal(Head(words)) /\ IntOf(Head(words)) > 10
          THEN <<IntOf(Head(words))>> ELSE <<>>) \o SizesOf(Tail(words))

IpswSizes(cell) == SizesOf(SizeWords(cell))

\* a variant of SizesMatch that lets a row with spare sizes through
SizesMatchAtLeast(ipsw_sizes, ipsws) == Len(ipsw_sizes) >= Len(ipsws)

\* len(ipsw_sizes) != len(ipsws) skips the row
SizesMatch(ipsw_sizes, ipsws) == Len(ipsw_sizes) = Len(ipsws)

\* What lines 38-75 make of one row.  verdict: "raise" (an exception leaves
\* build_api), "nolinks", "noipsw", "sizes" (the row is skipped by continue),
\* "ok" (the row reaches the device loop).
Extract(row) ==
    LET firm_data == Compact(row.cells)
        k         == KeysColumn(row.template)
        n         == Len(firm_data)
        skip(v)   == [verdict |-> v, devices |-> <<>>, version |-> <<>>,
                      buildids |-> <<>>, ipsws |-> <<>>, ipsw_sizes |-> <<>>]
    IN  IF k = 0 \/ k > n \/ n < 2 THEN skip("raise")
        ELSE IF Ipsws(firm_data) = <<>> THEN skip("nolinks")
        ELSE IF ~AnyIpsw(Ipsws(firm_data)) THEN skip("noipsw")
        ELSE IF SizeRaises(firm_data[n]) THEN skip("raise")
        ELSE IF ~SizesMatch(IpswSizes(firm_data[n]), Ipsws(firm_data)) THEN skip("sizes")
        ELSE [verdict    |-> "ok",
              devices    |-> MatchedDevices(firm_data[k].wikilinks),
              version    |-> VersionOf(firm_data[1]),
              buildids   |-> BuildIds(firm_data[2]),
              ipsws      |-> Ipsws(firm_data),
              ipsw_sizes |-> IpswSizes(firm_data[n])]

\* firm_index of line 78, for position d (from 0) among n devices
FirmIndex(n, d) ==
    IF (n = 4 /\ d \in {0, 1}) \/ (n = 2 /\ d = 0) THEN 0 ELSE 1

----------------------------------------------------------------------------
\* The inputs.

Title(family, version) == <<"Beta Firmware", "/">> \o family \o <<"/">> \o version

Families == { <<"Apple TV">>, <<"iPod touch">>, <<"iPhone">>, <<"iPad", " Air">> }

Titles ==
    { Title(f, v) : f \in Families,
                    v \in { <<"6", ".", "x">>, <<"8", ".", "x">>, <<"9", ".", "x">>,
                            <<"1", "0", ".", "x">> } }
      \cup { Title(<<"iPhone">>, <<"9", ".", "0">>) }

DevA == <<"iPhone", "1", ",", "1">>
DevB == <<"iPhone", "1", ",", "2">>
DevC == <<"iPad", "1", ",", "1">>
DevD == <<"iPod", "1", ",", "1">>

Link(text) == [raw |-> "[[k]]", text |-> text]

KeysCell(texts) == Cell(<<"k">>, [i \in 1..Len(texts) |-> Link(texts[i])], <<>>)

\* one, two and four devices; NotedKeys: a footnote link and a device link with a tail
KeysCells ==
    { KeysCell(<<DevA>>), KeysCell(<<DevA, DevB>>), KeysCell(<<DevA, DevB, DevC, DevD>>) }

NotedKeys == KeysCell(<<<<"n", "o", "t", "e">>, DevA \o <<"x">>>>)

PlainVersion == Cell(<<"v">>, <<>>, <<>>)
EmptyVersion == Cell(<<>>, <<>>, <<>>)
LinkedVersion == Cell(<<"[[p|w]]", "b">>, <<[raw |-> "[[p|w]]", text |-> <<"w">>]>>, <<>>)

BuildA == Cell(<<"a">>, <<>>, <<>>)
BuildB == Cell(<<"b">>, <<>>, <<>>)
\* two build ids, a and b
BuildAB ==
    Cell(<<"SEP", "A", "EQ", "a", "\n", "SEP", "B", "EQ", "b", "\n", "SEP">>, <<>>, <<>>)
\* one separator: nothing is left between the first and the last part
BuildNone == Cell(<<"x", "SEP", "y">>, <<>>, <<>>)
BuildEmpty == Cell(<<>>, <<>>, <<>>)

BuildCells == {BuildA, BuildB, BuildAB, BuildNone}

Url1 == <<"u", "1", ".ipsw">>
Url2 == <<"u", "2", ".ipsw">>
UrlZip == <<"u", "1", ".zip">>

\* one link and its size 12
Down1 == Cell(<<"l", " ", "1", "2">>, <<>>, <<Url1>>)
\* two links, sizes 12 and 2,0
Down2 == Cell(<<"l", " ", "l", " ", "1", "2", " ", "2", ",", "0", "\n">>, <<>>, <<Url1, Url2>>)
DownNoLink == Cell(<<"1", "2">>, <<>>, <<>>)
DownZip == Cell(<<"l", " ", "1", "2">>, <<>>, <<UrlZip>>)
DownTwoSizes == Cell(<<"l", " ", "1", "2", " ", "2", "0">>, <<>>, <<Url1>>)
DownSmallSize == Cell(<<"l", " ", "9">>, <<>>, <<Url1>>)
DownSuperscript == Cell(<<"l", " ", "^2">>, <<>>, <<Url1>>)

\* the download cells of rows that pass, and of rows that are skipped
PassCells == {Down1, Down2}
SkipCells == {DownNoLink, DownZip, DownTwoSizes, DownSmallSize}

BaseTemplate == << <<"Version">>, <<"Build">>, <<"Keys">>, <<"Download">> >>

Row(version, build, keys, down) ==
    [template |-> BaseTemplate, cells |-> <<version, build, keys, down>>]

OneA == KeysCell(<<DevA>>)

OddRows ==
    { Row(EmptyVersion, BuildA, OneA, Down1),
      Row(LinkedVersion, BuildA, OneA, Down1),
      Row(PlainVersion, BuildEmpty, OneA, Down1),
      Row(PlainVersion, BuildA, OneA, DownSuperscript),
      Row(PlainVersion, BuildA, NotedKeys, Down1),
      \* the device column is labelled Codename
      [template |-> << <<"Version">>, <<"Build">>, <<"Codename">>, <<"Download">> >>,
       cells |-> <<PlainVersion, BuildA, OneA, Down1>>],
      \* no column is labelled Codename or Keys
      [template |-> << <<"Version">>, <<"Build">>, <<"Download">> >>,
       cells |-> <<PlainVersion, BuildA, Down1>>],
      \* a None before the device column moves the lookup one cell on
      [template |-> << <<"Version">>, <<"Build">>, <<"Baseband">>, <<"Keys">>, <<"Download">> >>,
       cells |-> <<PlainVersion, BuildA, NoneCell, OneA, Down1>>],
      \* fewer cells than the index of the device column
      [template |-> BaseTemplate, cells |-> <<PlainVersion, BuildA, NoneCell, NoneCell>>],
      \* fewer than two cells
      [template |-> << <<"Keys">>, <<"Build">> >>, cells |-> <<OneA, NoneCell>>] }

Rows ==
    { Row(PlainVersion, b, k, d) : b \in BuildCells, k \in KeysCells, d \in PassCells }
      \cup { Row(PlainVersion, BuildA, OneA, d) : d \in SkipCells }
      \cup { Row(PlainVersion, BuildAB, KeysCell(<<DevA, DevB, DevC, DevD>>), d) : d \in SkipCells }
      \cup OddRows

\* The results of site.search, one set of possible titles per result: any
\* titles when build_api is called alone, an iPhone page and an iPad Air page
\* when the four calls of main run concurrently.
BuildSite == [k \in 1..MaxResults |-> Titles]

MainSite == << {Title(<<"iPhone">>, <<"9", ".", "x">>)},
               {Title(<<"iPad", " Air">>, <<"1", "0", ".", "x">>)} >>

MainRows ==
    { Row(PlainVersion, BuildA, OneA, Down1),
      Row(PlainVersion, BuildNone, OneA, Down1),
      Row(PlainVersion, BuildAB, KeysCell(<<DevA, DevB>>), Down2) }

\* Extract over every row of the wiki, computed once
Extracted == [row \in Rows \cup MainRows |-> Extract(row)]

----------------------------------------------------------------------------
\* build_api: the page filter and the record fields.

\* the four build_api calls of main, by their device_types
Tasks == 1..4

DeviceTypes(t) ==
    CASE t = 1 -> << <<"Apple TV">> >>
      [] t = 2 -> << <<"iPod touch">> >>
      [] t = 3 -> << <<"iPhone">> >>
      [] t = 4 -> << <<"iPad">>, <<"iPad", " Air">>, <<"iPad", " Pro">>, <<"iPad", " Mini">> >>

\* the literal 9 of `major_version < 9`
MinMajor == 9
\* the literal 7 of `... else 7`
AppleTVElse == 7

\* the truth value Python gives an int used as a condition
Truthy(n) == n # 0

\* ('.x' not in title) or (not any(x in title for x in device_types)): skip
TitleMatches(title, device_types) ==
    /\ Contains(title, <<".", "x">>)
    /\ \E i \in 1..Len(device_types) : Contains(title, device_types[i])

\* result['title'].split('/')[2][:-2]
MajorText(title) ==
    LET seg == Split(title, "/")[3]
    IN  Slice(seg, 1, Len(seg) - 2)

\* split('/')[2] raises IndexError, int() raises ValueError
MajorRaises(title) ==
    \/ Len(Split(title, "/")) < 3
    \/ ~IsDecimal(MajorText(title))

\* `if major_version < 9 if 'Apple TV' not in title else 7: continue`, which
\* Python reads as (major_version < 9) if (...) else 7
SkipsVersion(title) ==
    IF ~Contains(title, <<"Apple TV">>)
    THEN IntOf(MajorText(title)) < MinMajor
    ELSE Truthy(AppleTVElse)

\* A firmware dict.  keys is the set of keys the dict holds; a field whose
\* key is absent holds a filler value.
NewFirm(version) ==
    [keys |-> {"version"}, version |-> version, buildid |-> <<>>, url |-> <<>>,
     size |-> 0, signed |-> FALSE]

\* lines 79-88: the assignments to firm for device position d (from 0)
Assigned(firm, x, d) ==
    LET firm_index == FirmIndex(Len(x.devices), d)
    IN  [firm EXCEPT
           !.keys = @ \cup {"buildid", "url", "size"},
           !.buildid = IF Len(x.buildids) > 1 THEN x.buildids[firm_index + 1]
                       ELSE x.buildids[1],
           !.url = IF Len(x.ipsws) > 1 THEN x.ipsws[firm_index + 1] ELSE x.ipsws[1],
           !.size = IF Len(x.ipsws) > 1 THEN x.ipsw_sizes[firm_index + 1]
                    ELSE x.ipsw_sizes[1]]

\* buildids[0], buildids[firm_index]: IndexError
AssignRaises(x, d) ==
    \/ Len(x.buildids) = 0
    \/ Len(x.buildids) > 1 /\ FirmIndex(Len(x.devices), d) + 1 > Len(x.buildids)

\* len(firm.keys()) < 4
Incomplete(firm) == Cardinality(firm.keys) < 4

\* any(f['buildid'] == firm['buildid'] for f in self.api[device])
HasBuild(refs, h, buildid) == \E i \in 1..Len(refs) : h[refs[i]].buildid = buildid

\* self.api as JSON would show it: device -> list of dicts
MappingOf(a, h) == [dev \in DOMAIN a |-> [i \in 1..Len(a[dev]) |-> h[a[dev][i]]]]

Mapping == MappingOf(api, heap)

\* the local state of a build_api call.  results counts the search results
\* gone through.  title, entered, row, accepted and changed are history: the
\* last search result and whether its page was processed, the row being processed, the (device, dict) pairs this call
\* appended, and whether this call has changed the mapping since it read row.
IdleExt ==
    [pc |-> "idle", results |-> 0, title |-> NoTitle, entered |-> FALSE, row |-> NoRow, d |-> 0,
     firm |-> 0, accepted |-> {}, changed |-> FALSE]

\* one step of call t: it leaves the mapping as (a, h) and itself as new
ExtStep(t, new, a, h) ==
    /\ api' = a
    /\ heap' = h
    /\ ext' = [ext EXCEPT ![t] =
                 [new EXCEPT !.changed = @ \/ MappingOf(a, h) # MappingOf(api, heap)]]
    /\ UNCHANGED <<sig, main, files>>

\* for result in self.site.search('Beta Firmware/'): lines 26-32
Search(t, title) ==
    /\ ext[t].pc = "search"
    /\ LET e == [ext[t] EXCEPT !.results = @ + 1, !.title = title, !.entered = FALSE]
       IN  IF ~TitleMatches(title, DeviceTypes(t)) THEN ExtStep(t, e, api, heap)
           ELSE IF MajorRaises(title)
           THEN ExtStep(t, [e EXCEPT !.pc = "raised"], api, heap)
           ELSE IF SkipsVersion(title) THEN ExtStep(t, e, api, heap)
           ELSE ExtStep(t, [e EXCEPT !.pc = "page", !.entered = TRUE], api, heap)

\* the search has no more results: build_api returns
SearchEnd(t) ==
    /\ ext[t].pc = "search"
    /\ ExtStep(t, [ext[t] EXCEPT !.pc = "done", !.title = NoTitle], api, heap)

\* the next row of the page's tables, lines 37-75 and `firm = dict()`
PageRow(t, row) ==
    /\ ext[t].pc = "page"
    /\ LET x == Extracted[row]
           e == [ext[t] EXCEPT !.title = NoTitle, !.row = row, !.d = 0, !.firm = 0,
                               !.changed = FALSE]
       IN  CASE x.verdict = "raise" -> ExtStep(t, [e EXCEPT !.pc = "raised"], api, heap)
             [] x.verdict = "ok" ->
                  ExtStep(t, [e EXCEPT !.pc = "loop", !.firm = Len(heap) + 1],
                          api, Append(heap, NewFirm(x.version)))
             [] OTHER -> ExtStep(t, e, api, heap)

\* the page has no more rows
PageEnd(t) ==
    /\ ext[t].pc = "page"
    /\ ExtStep(t, [ext[t] EXCEPT !.pc = "search", !.title = NoTitle, !.row = NoRow,
                                 !.d = 0, !.firm = 0, !.changed = FALSE], api, heap)

\* for d in range(len(devices)) is over: on to the next row
RowEnd(t) ==
    /\ ext[t].pc = "loop"
    /\ ext[t].d >= Len(Extracted[ext[t].row].devices)
    /\ ExtStep(t, [ext[t] EXCEPT !.pc = "page"], api, heap)

\* lines 78-91 for devices[d]
Assign(t) ==
    /\ ext[t].pc = "loop"
    /\ ext[t].d < Len(Extracted[ext[t].row].devices)
    /\ LET x == Extracted[ext[t].row]
           e == ext[t]
       IN  IF AssignRaises(x, e.d) THEN ExtStep(t, [e EXCEPT !.pc = "raised"], api, heap)
           ELSE LET f == Assigned(heap[e.firm], x, e.d)
                    h == [heap EXCEPT ![e.firm] = f]
                IN  IF Incomplete(f) THEN ExtStep(t, [e EXCEPT !.d = @ + 1], api, h)
                    ELSE ExtStep(t, [e EXCEPT !.pc = "chkkey"], api, h)

Device(t) == Extracted[ext[t].row].devices[ext[t].d + 1]

\* line 93: if devices[d] not in self.api.keys()
CheckKey(t) ==
    /\ ext[t].pc = "chkkey"
    /\ ExtStep(t, [ext[t] EXCEPT !.pc = IF Device(t) \in DOMAIN api THEN "chkdup"
                                        ELSE "mklist"], api, heap)

\* line 94: self.api[devices[d]] = list()
MakeList(t) ==
    /\ ext[t].pc = "mklist"
    /\ ExtStep(t, [ext[t] EXCEPT !.pc = "chkdup"],
               [dev \in DOMAIN api \cup {Device(t)} |->
                    IF dev = Device(t) THEN <<>> ELSE api[dev]], heap)

\* line 96: if not any(f['buildid'] == firm['buildid'] for f in self.api[devices[d]])
CheckDup(t) ==
    /\ ext[t].pc = "chkdup"
    /\ IF HasBuild(api[Device(t)], heap, heap[ext[t].firm].buildid)
       THEN ExtStep(t, [ext[t] EXCEPT !.pc = "loop", !.d = @ + 1], api, heap)
       ELSE ExtStep(t, [ext[t] EXCEPT !.pc = "append"], api, heap)

\* line 97: self.api[devices[d]].append(firm)
AppendFirm(t) ==
    /\ ext[t].pc = "append"
    /\ ExtStep(t, [ext[t] EXCEPT !.pc = "loop", !.d = @ + 1,
                                 !.accepted = @ \cup {<<Device(t), ext[t].firm>>}],
               [api EXCEPT ![Device(t)] = Append(@, ext[t].firm)], heap)

----------------------------------------------------------------------------
\* get_signing_status, write_api and main.

\* the local state of a get_signing_status call: i is the position of the
\* list iterator of `for firm in self.api[device]`; failed is history, the
\* dicts whose download did not resolve.
QueuedSig == [pc |-> "queued", i |-> 0, failed |-> {}]

\* self.api[device].index(firm): the first position holding an equal dict
IndexOf(refs, h, ref) ==
    CHOOSE j \in 1..Len(refs) :
        /\ h[refs[j]] = h[ref]
        /\ \A k \in 1..(j - 1) : h[refs[k]] # h[ref]

\* list.pop(j)
Pop(refs, j) == SubSeq(refs, 1, j - 1) \o SubSeq(refs, j + 1, Len(refs))

\* line 100: the board lookup, which raises when the request or the answer fails
SignStart(dev, ok) ==
    /\ sig[dev].pc = "queued"
    /\ sig' = [sig EXCEPT ![dev].pc = IF ok THEN "loop" ELSE "raised"]
    /\ UNCHANGED <<api, heap, ext, main, files>>

\* lines 102-122: one round of the loop.  outcome: "fail" (the except clause),
\* "signed", "unsigned" (what tsschecker printed)
SignIter(dev, outcome) ==
    /\ sig[dev].pc = "loop"
    /\ sig[dev].i < Len(api[dev])
    /\ LET firm == api[dev][sig[dev].i + 1]
       IN  IF outcome = "fail"
           THEN /\ api' = [api EXCEPT ![dev] = Pop(@, IndexOf(@, heap, firm))]
                /\ heap' = heap
                /\ sig' = [sig EXCEPT ![dev].i = @ + 1, ![dev].failed = @ \cup {firm}]
           ELSE /\ heap' = [heap EXCEPT ![firm].keys = @ \cup {"signed"},
                                        ![firm].signed = (outcome = "signed")]
                /\ api' = api
                /\ sig' = [sig EXCEPT ![dev].i = @ + 1]
    /\ UNCHANGED <<ext, main, files>>

\* the iterator is past the end of the list: get_signing_status returns
SignEnd(dev) ==
    /\ sig[dev].pc = "loop"
    /\ sig[dev].i >= Len(api[dev])
    /\ sig' = [sig EXCEPT ![dev].pc = "done"]
    /\ UNCHANGED <<api, heap, ext, main, files>>

\* sorted(self.api[device], key=lambda firm: firm['buildid'], reverse=True):
\* a stable sort, equal keys keep their order
RECURSIVE Insert(_, _)
Insert(sorted, f) ==
    IF sorted = <<>> THEN <<f>>
    ELSE IF StrLess(Head(sorted).buildid, f.buildid) THEN <<f>> \o sorted
    ELSE <<Head(sorted)>> \o Insert(Tail(sorted), f)

RECURSIVE SortedDesc(_)
SortedDesc(firms) ==
    IF firms = <<>> THEN <<>>
    ELSE Insert(SortedDesc(SubSeq(firms, 1, Len(firms) - 1)), firms[Len(firms)])

\* a variant of ScrapeJoined: the pool is left without waiting
ScrapeNotJoined == TRUE

\* leaving `with ThreadPoolExecutor()` waits for every submitted call
ScrapeJoined == \A t \in Tasks : ext[t].pc \in {"done", "raised"}

SigningJoined == \A dev \in DOMAIN sig : sig[dev].pc \in {"done", "raised"}

\* lines 144-147: the four build_api calls are submitted
Submit ==
    /\ main = "start"
    /\ main' = "scrape"
    /\ ext' = [t \in Tasks |-> [IdleExt EXCEPT !.pc = "search"]]
    /\ UNCHANGED <<api, heap, sig, files>>

\* lines 148-153: the scrape pool is left, one get_signing_status per device
\* is submitted
StartSigning ==
    /\ main = "scrape"
    /\ ScrapeJoined
    /\ main' = "sign"
    /\ sig' = [dev \in DOMAIN api |-> QueuedSig]
    /\ UNCHANGED <<api, heap, ext, files>>

\* line 153 to 155: the signing pool is left
JoinSigning ==
    /\ main = "sign"
    /\ SigningJoined
    /\ main' = "write"
    /\ UNCHANGED <<api, heap, ext, sig, files>>

\* write_api, lines 124-131
WriteApi ==
    /\ main = "write"
    /\ files' = [dev \in DOMAIN api |-> SortedDesc(Mapping[dev])]
    /\ main' = "done"
    /\ UNCHANGED <<api, heap, ext, sig>>

----------------------------------------------------------------------------
\* The specifications.

Empty == [dev \in {} |-> <<>>]

\* one step of the build_api call t on a wiki of the given titles and rows
BuildApi(t, site, rows, maxFirms) ==
    \/ \E k \in 1..Len(site) : \E title \in site[k] : ext[t].results = k - 1 /\ Search(t, title)
    \/ ext[t].results = Len(site) /\ SearchEnd(t)
    \/ \E row \in rows : Len(heap) < maxFirms /\ PageRow(t, row)
    \/ PageEnd(t)
    \/ RowEnd(t)
    \/ Assign(t)
    \/ CheckKey(t)
    \/ MakeList(t)
    \/ CheckDup(t)
    \/ AppendFirm(t)

\* build_api called once, on a fresh BetaScraper, with one of main's four
\* device_types
InitBuild ==
    /\ api = Empty
    /\ heap = <<>>
    /\ \E t \in Tasks : ext = [u \in Tasks |-> IF u = t THEN [IdleExt EXCEPT !.pc = "search"]
                                               ELSE IdleExt]
    /\ sig = Empty
    /\ main = "build_api"
    /\ files = Empty

NextBuild == \E t \in Tasks : BuildApi(t, BuildSite, Rows, MaxFirms)

SpecBuild == InitBuild /\ [][NextBuild]_vars

\* main
Init ==
    /\ api = Empty
    /\ heap = <<>>
    /\ ext = [t \in Tasks |-> IdleExt]
    /\ sig = Empty
    /\ main = "start"
    /\ files = Empty

Next ==
    \/ Submit
    \/ \E t \in Tasks : BuildApi(t, MainSite, MainRows, MaxMainFirms)
    \/ StartSigning
    \/ \E dev \in DOMAIN sig, ok \in BOOLEAN : SignStart(dev, ok)
    \/ \E dev \in DOMAIN sig, outcome \in {"fail", "signed", "unsigned"} : SignIter(dev, outcome)
    \/ \E dev \in DOMAIN sig : SignEnd(dev)
    \/ JoinSigning
    \/ WriteApi

Spec == Init /\ [][Next]_vars

----------------------------------------------------------------------------
\* The claims.

Range(seq) == {seq[i] : i \in 1..Len(seq)}

\* build_api is between rows (or has not started, or is over)
AtRest(t) == ext[t].pc \in {"idle", "search", "page", "done", "raised"}

\* call t has finished a row that reached the device loop
RowDone(t) ==
    /\ ext[t].pc = "page"
    /\ ext[t].row # NoRow
    /\ Extracted[ext[t].row].verdict = "ok"

\* the dicts call t appended for the device at position d (from 0) of its row
EmittedFor(t, d) ==
    {p[2] : p \in {q \in ext[t].accepted :
                      q[1] = Extracted[ext[t].row].devices[d + 1] /\ q[2] = ext[t].firm}}

\* C1: for every device, once build_api has processed any sequence of rows,
\* no two records of the device's list have the same buildid.
C1_NoTwoRecordsShareBuildid ==
    (\A t \in Tasks : AtRest(t)) =>
        \A dev \in DOMAIN api : \A i, j \in 1..Len(api[dev]) :
            i # j => heap[api[dev][i]].buildid # heap[api[dev][j]].buildid

\* the build id the claim gives the device at position d of n: the first for
\* A and B of four and for A of two, the second for the others
ClaimedBuild(n, d) == IF (n = 4 /\ d < 2) \/ (n = 2 /\ d < 1) THEN 1 ELSE 2

\* C2: when build_api has accepted a row with two build ids [b0,b1] and four
\* devices [A,B,C,D], the records emitted for A and B carry b0 and those for C
\* and D carry b1; with two devices [A,B], A's record carries b0 and B's b1.
C2_DevicesGetTheirBuildid ==
    \A t \in Tasks :
        (RowDone(t) /\ Len(Extracted[ext[t].row].buildids) = 2
                    /\ Len(Extracted[ext[t].row].devices) \in {2, 4}) =>
            \A d \in 0..(Len(Extracted[ext[t].row].devices) - 1) :
                \A f \in EmittedFor(t, d) :
                    heap[f].buildid =
                        Extracted[ext[t].row].buildids[
                            ClaimedBuild(Len(Extracted[ext[t].row].devices), d)]

\* C3: build_api never raises for a malformed row: the row yields no record
\* and processing goes on with the next row.
C3_NoRowMakesBuildApiRaise ==
    \A t \in Tasks : ext[t].pc = "raised" => ext[t].row = NoRow

\* C4: when the scrape phase ends (every build_api call is over, main has not
\* gone on), every record a call appended to a device's list is in that list.
C4_NoAcceptedRecordIsLost ==
    (main = "scrape" /\ \A t \in Tasks : ext[t].pc \in {"done", "raised"}) =>
        \A t \in Tasks : \A p \in ext[t].accepted :
            p[1] \in DOMAIN api /\ p[2] \in Range(api[p[1]])

\* the page filter as the claim states it: minimum 7 for Apple TV, 9 otherwise
ClaimProcesses(title, device_types) ==
    /\ Contains(title, <<".", "x">>)
    /\ \E i \in 1..Len(device_types) : Contains(title, device_types[i])
    /\ IntOf(MajorText(title)) >= (IF Contains(title, <<"Apple TV">>) THEN 7 ELSE 9)

\* C5: build_api processes a search result exactly when its title contains
\* ".x" and a requested family and its major version is at least the family
\* minimum, 7 for Apple TV and 9 for the others.
C5_PageProcessedIffClaimed ==
    \A t \in Tasks :
        ext[t].title # NoTitle =>
            (ext[t].entered <=> ClaimProcesses(ext[t].title, DeviceTypes(t)))

\* the three cases of the claim, read off the row
NoLinkCell(row) ==
    \A i \in 1..Len(Compact(row.cells)) : Compact(row.cells)[i].external_links = <<>>

NoIpswLink(row) ==
    /\ ~NoLinkCell(row)
    /\ \A i \in 1..Len(Ipsws(Compact(row.cells))) :
           ~EndsWith(Ipsws(Compact(row.cells))[i], <<".ipsw">>)

SizeCountDiffers(row) ==
    /\ Len(Compact(row.cells)) > 0
    /\ Len(IpswSizes(Compact(row.cells)[Len(Compact(row.cells))]))
           # Len(Ipsws(Compact(row.cells)))

\* C6: a row with no external link in any cell, or with no link ending in
\* ".ipsw", or whose number of size tokens differs from its number of links,
\* is rejected as a whole: processing it changes no device's list.
C6_RejectedRowChangesNothing ==
    \A t \in Tasks :
        (ext[t].row # NoRow /\ (\/ NoLinkCell(ext[t].row)
                                \/ NoIpswLink(ext[t].row)
                                \/ SizeCountDiffers(ext[t].row))) =>
            /\ ~ext[t].changed
            /\ ext[t].pc \notin {"loop", "chkkey", "mklist", "chkdup", "append"}

\* a row with more sizes than links was read and skipped, the mapping holding
\* records of an earlier row
C6_Witness ==
    \E t \in Tasks :
        /\ ext[t].pc = "page"
        /\ ext[t].row # NoRow
        /\ ~NoLinkCell(ext[t].row)
        /\ ~NoIpswLink(ext[t].row)
        /\ SizeCountDiffers(ext[t].row)
        /\ \E dev \in DOMAIN api : Len(api[dev]) > 0

Complete(f) ==
    /\ {"version", "buildid", "url", "size"} \subseteq f.keys
    /\ f.version # <<>>
    /\ f.buildid # <<>>
    /\ f.url # <<>>
    /\ f.size > 0

\* C7: for a row with 1, 2 or 4 devices and 1 or 2 build ids, every record
\* build_api emits has a non-empty version, buildid and url and a size > 0.
C7_EmittedRecordsAreComplete ==
    \A t \in Tasks :
        (RowDone(t) /\ Len(Extracted[ext[t].row].buildids) \in {1, 2}
                    /\ Len(Extracted[ext[t].row].devices) \in {1, 2, 4}) =>
            \A d \in 0..(Len(Extracted[ext[t].row].devices) - 1) :
                \A f \in EmittedFor(t, d) : Complete(heap[f])

ExtractionOver == \A t \in Tasks : ext[t].pc \in {"done", "raised"}

\* C8: no signing-check call starts before all four build_api calls are over
\* (returned or raised), write_api starts only when every signing-check call
\* is over, and no build_api call is running once the signing phase has begun.
C8_PhasesInOrder ==
    /\ (\E dev \in DOMAIN sig : sig[dev].pc # "queued") => ExtractionOver
    /\ main \in {"sign", "write", "done"} => ExtractionOver
    /\ main \in {"write", "done"} =>
           \A dev \in DOMAIN sig : sig[dev].pc \in {"done", "raised"}

\* write_api is reached after a build_api call raised and a signing-check
\* call ran to its end
C8_Witness ==
    /\ main = "write"
    /\ \E t \in Tasks : ext[t].pc = "raised"
    /\ \E t \in Tasks : ext[t].pc = "done" /\ ext[t].accepted # {}
    /\ \E dev \in DOMAIN sig : sig[dev].pc = "done"

\* C9: after get_signing_status(device) is over, every record left in the
\* device's list has a signed field and no record whose download failed is
\* left in it.
C9_EveryRecordCheckedOrRemoved ==
    \A dev \in DOMAIN sig :
        sig[dev].pc = "done" =>
            \A i \in 1..Len(api[dev]) :
                /\ "signed" \in heap[api[dev][i]].keys
                /\ api[dev][i] \notin sig[dev].failed

\* C10: the lists of two different devices never hold the same record object.
C10_NoRecordSharedByDevices ==
    \A dev1, dev2 \in DOMAIN api :
        dev1 # dev2 => Range(api[dev1]) \cap Range(api[dev2]) = {}

====
